---- MODULE Spec2Model ----
(***************************************************************************)
(* Verification model of the wysteria backend and sign-in form.            *)
(*                                                                         *)
(* Four parts of the repository are modelled, each with its own            *)
(* specification over the shared variables:                                *)
(*   ClusterSpec  - src/index.ts, the cluster entry point                  *)
(*   ComposeSpec  - src/lib/plugins/index.ts (composePlugins) as used by   *)
(*                  src/server.ts                                          *)
(*   HttpSpec     - request handling of userController (auth macro) and    *)
(*                  of the composed app                                    *)
(*   FormSpec     - the LoginForm OTP sign-in state machine                *)
(***************************************************************************)
EXTENDS Integers, Sequences, FiniteSets, TLC

VARIABLES
    \* ---- cluster entry point ----
    nodeEnv,        \* import.meta.env.NODE_ENV of the deployment
    numCPUs,        \* os.availableParallelism()
    pPc,            \* position of the primary (or single) process in index.ts
    i,              \* loop variable of the fork loop
    pLoads,         \* number of times the primary process imported ./server
    wState,         \* sequence: state of every worker ever forked
    wLoads,         \* sequence: number of imports of ./server per worker
    exitQueue,      \* 'exit' events emitted to the primary, not yet dispatched
    exitHandler,    \* cluster.on('exit', ...) has been registered
    respawns,       \* forks made by the exit handler
    exits,          \* worker exits so far
    \* ---- composePlugins ----
    plugins,        \* the plugins argument: sequence of [name, kind]
    cPc,            \* position of composePlugins: "loop", "await", "done"
    idx,            \* index of the plugin the for..of loop is at
    settled,        \* promises that have resolved, in order of resolution
    result,         \* `result`: the plugins applied to the app, in order
    \* ---- HTTP requests ----
    reqs,           \* sequence of the requests received, each with its
                    \* position in the request lifecycle and its own context
    \* ---- LoginForm ----
    fIdentifier,    \* form value `identifier` (a sequence of characters)
    fOtp,           \* form value `otp`
    fStep,          \* form value `step`: "login" or "verify"
    fMethod,        \* form value `method`: "email" or "phone"
    isSubmitting,   \* form.state.isSubmitting
    sPc,            \* onSubmit: "idle", "sending" or "verifying" (at an await)
    sReq,           \* the request onSubmit is awaiting
    rCur,           \* resend in flight from the mounted ResendButton
                    \* (<<channel>> while isResending, else <<>>)
    rOld,           \* resends in flight from unmounted ResendButtons
    cooling,        \* cooldown > 0 in the mounted ResendButton
    toast,          \* the last toast shown
    lastSend,       \* history: the most recent send-code request
    lastInput,      \* history: `identifier` as submitted on the login step
    sendOutcome,    \* history: how the last login-step send ended
    lastVerify,     \* history: the last verification request, with the
                    \* send-code request that preceded it
    lastResend,     \* history: the last resend, with the send-code request
                    \* that preceded it
    \* ---- phone sign-up on verification ----
    tePhone,        \* the phone number a verified sign-up is made for
    teDone,         \* signUpOnVerification has made the user's temp fields
    teEmail,        \* the result of getTempEmail
    teName,         \* the result of getTempName
    \* ---- CORS plugin ----
    corsNodeEnv,    \* import.meta.env.NODE_ENV read by lib/plugins/cors.ts
    corsOrigin,     \* the Origin header of the request
    corsPc,         \* "request" before the plugin has looked at the origin
    corsAllowed,    \* the plugin's verdict on the origin
    \* ---- userController over the user table ----
    userTable,      \* the user table: id -> stored name and image
    uReqs,          \* the requests userController has received
    lastPatch       \* history: per user, the body of the last PATCH /user/me
                    \* answered 200

clusterVars == <<nodeEnv, numCPUs, pPc, i, pLoads, wState, wLoads, exitQueue,
                 exitHandler, respawns, exits>>

composeVars == <<plugins, cPc, idx, settled, result>>

httpVars == <<reqs>>

formVars == <<fIdentifier, fOtp, fStep, fMethod, isSubmitting, sPc, sReq, rCur,
              rOld, cooling, toast, lastSend, lastInput, sendOutcome,
              lastVerify, lastResend>>

tempVars == <<tePhone, teDone, teEmail, teName>>

corsVars == <<corsNodeEnv, corsOrigin, corsPc, corsAllowed>>
userVars == <<userTable, uReqs, lastPatch>>

vars ==
    <<clusterVars, composeVars, httpVars, formVars, tempVars, corsVars,
      userVars>>

notCluster ==
    <<composeVars, httpVars, formVars, tempVars, corsVars,
      userVars>>
notCompose ==
    <<clusterVars, httpVars, formVars, tempVars, corsVars,
      userVars>>
notHttp ==
    <<clusterVars, composeVars, formVars, tempVars, corsVars,
      userVars>>
notForm ==
    <<clusterVars, composeVars, httpVars, tempVars, corsVars,
      userVars>>
notTemp ==
    <<clusterVars, composeVars, httpVars, formVars, corsVars,
      userVars>>
notUser ==
    <<clusterVars, composeVars, httpVars, formVars, tempVars, corsVars>>
notCors ==
    <<clusterVars, composeVars, httpVars, formVars, tempVars,
      userVars>>

(***************************************************************************)
(* Bounds                                                                  *)
(***************************************************************************)
MaxCPUs == 2
MaxExits == 2

Range(s) == {s[k] : k \in DOMAIN s}

(***************************************************************************)
(* Cluster entry point (src/index.ts)                                      *)
(***************************************************************************)
NodeEnvs == {"production", "development", "test"}
ExitCodes == {"0", "1", "SIGKILL"}
LiveStates == {"forked", "loaded", "started"}

IsProductionNotDev(env) == env # "development"
\* const isProduction = import.meta.env.NODE_ENV === 'production'
IsProduction(env) == env = "production"

ForkLoopCondInclusive(k, n) == k <= n
\* for (let i = 0; i < numCPUs; i++)
ForkLoopCond(k, n) == k < n

RespawnOnlyOnFailure(code) == code # "0"
\* cluster.on('exit', (worker, code, signal) => { ...; cluster.fork() }):
\* the handler forks whatever the code or signal
RespawnOn(code) == code \in ExitCodes

LiveWorkers == {w \in DOMAIN wState : wState[w] \in LiveStates}
Forked == Len(wState)

ClusterStart ==
    /\ nodeEnv \in NodeEnvs
    /\ numCPUs \in 1..MaxCPUs
    /\ pPc = "start"
    /\ i = 0
    /\ pLoads = 0
    /\ wState = <<>>
    /\ wLoads = <<>>
    /\ exitQueue = <<>>
    /\ exitHandler = FALSE
    /\ respawns = 0
    /\ exits = 0

\* cluster.fork(): a new worker process running index.ts with isPrimary false
Fork ==
    /\ wState' = Append(wState, "forked")
    /\ wLoads' = Append(wLoads, 0)

\* if (isProduction) { if (cluster.isPrimary) { const numCPUs = ... } }
PrimaryStart ==
    /\ pPc = "start"
    /\ IsProduction(nodeEnv)
    /\ pPc' = "forking"
    /\ i' = 0
    /\ UNCHANGED <<nodeEnv, numCPUs, pLoads, wState, wLoads, exitQueue,
                   exitHandler, respawns, exits>>
    /\ UNCHANGED notCluster

\* one iteration of the fork loop
PrimaryForkLoop ==
    /\ pPc = "forking"
    /\ ForkLoopCond(i, numCPUs)
    /\ Fork
    /\ i' = i + 1
    /\ UNCHANGED <<nodeEnv, numCPUs, pPc, pLoads, exitQueue, exitHandler,
                   respawns, exits>>
    /\ UNCHANGED notCluster

\* loop exit, then cluster.on('online', ...) and cluster.on('exit', ...)
PrimaryRegister ==
    /\ pPc = "forking"
    /\ ~ForkLoopCond(i, numCPUs)
    /\ exitHandler' = TRUE
    /\ pPc' = "running"
    /\ UNCHANGED <<nodeEnv, numCPUs, i, pLoads, wState, wLoads, exitQueue,
                   respawns, exits>>
    /\ UNCHANGED notCluster

\* else branch: await import('./server') in the single process
DevImport ==
    /\ pPc = "start"
    /\ ~IsProduction(nodeEnv)
    /\ pLoads' = pLoads + 1
    /\ pPc' = "done"
    /\ UNCHANGED <<nodeEnv, numCPUs, i, wState, wLoads, exitQueue, exitHandler,
                   respawns, exits>>
    /\ UNCHANGED notCluster

\* worker: isProduction and not isPrimary: await import('./server')
WorkerImport(w) ==
    /\ wState[w] = "forked"
    /\ wState' = [wState EXCEPT ![w] = "loaded"]
    /\ wLoads' = [wLoads EXCEPT ![w] = @ + 1]
    /\ UNCHANGED <<nodeEnv, numCPUs, pPc, i, pLoads, exitQueue, exitHandler,
                   respawns, exits>>
    /\ UNCHANGED notCluster

\* worker: console.log(`Worker ${process.pid} started`)
WorkerStarted(w) ==
    /\ wState[w] = "loaded"
    /\ wState' = [wState EXCEPT ![w] = "started"]
    /\ UNCHANGED <<nodeEnv, numCPUs, pPc, i, pLoads, wLoads, exitQueue,
                   exitHandler, respawns, exits>>
    /\ UNCHANGED notCluster

\* a worker process dies, with any exit code or signal, at any point of its
\* life; node:cluster emits 'exit' to the primary
WorkerExit(w, code) ==
    /\ wState[w] \in LiveStates
    /\ exits < MaxExits
    /\ wState' = [wState EXCEPT ![w] = "exited"]
    /\ exitQueue' = Append(exitQueue, [worker |-> w, code |-> code])
    /\ exits' = exits + 1
    /\ UNCHANGED <<nodeEnv, numCPUs, pPc, i, pLoads, wLoads, exitHandler,
                   respawns>>
    /\ UNCHANGED notCluster

\* the primary's event loop dispatches one 'exit' event to the handler; the
\* top-level code of index.ts is synchronous, so no event is dispatched
\* before the handler is registered
HandleExit ==
    /\ pPc = "running"
    /\ exitHandler
    /\ exitQueue # <<>>
    /\ exitQueue' = Tail(exitQueue)
    /\ IF RespawnOn(Head(exitQueue).code)
         THEN Fork /\ respawns' = respawns + 1
         ELSE UNCHANGED <<wState, wLoads, respawns>>
    /\ UNCHANGED <<nodeEnv, numCPUs, pPc, i, pLoads, exitHandler, exits>>
    /\ UNCHANGED notCluster

ClusterNext ==
    \/ PrimaryStart
    \/ PrimaryForkLoop
    \/ PrimaryRegister
    \/ DevImport
    \/ \E w \in DOMAIN wState : WorkerImport(w)
    \/ \E w \in DOMAIN wState : WorkerStarted(w)
    \/ \E w \in DOMAIN wState, code \in ExitCodes : WorkerExit(w, code)
    \/ HandleExit

(***************************************************************************)
(* composePlugins (src/lib/plugins/index.ts) and its use in src/server.ts  *)
(***************************************************************************)
MaxPlugins == 3

\* the four shapes of ElysiaPlugin: an instance, a promise of an instance,
\* a plugin factory, an async plugin factory
Kinds == {"instance", "promise", "factory", "asyncFactory"}

GenericNames == <<"p1", "p2", "p3", "p4", "p5">>

\* new Elysia({ name: pkg.name }).mount(auth.handler): the app handed to
\* composePlugins already carries the Better Auth mount
BaseApp == <<"auth">>

\* const plugins = [staticPlugin(), telemetry(), openapi(), cors(),
\*                  rateLimit(), serverTiming(), v1]
ServerPlugins ==
    << [name |-> "static",       kind |-> "promise"],
       [name |-> "telemetry",    kind |-> "instance"],
       [name |-> "openapi",      kind |-> "instance"],
       [name |-> "cors",         kind |-> "instance"],
       [name |-> "rateLimit",    kind |-> "factory"],
       [name |-> "serverTiming", kind |-> "instance"],
       [name |-> "v1",           kind |-> "instance"] >>

\* the order the backend documentation gives under "Middleware Order"
DocumentedOrder ==
    <<"auth", "static", "rateLimit", "serverTiming", "telemetry", "cors",
      "openapi", "v1">>

GenericPluginLists ==
    UNION { { [k \in 1..n |-> [name |-> GenericNames[k], kind |-> ks[k]]] :
              ks \in [1..n -> Kinds] } : n \in 0..MaxPlugins }

Names(pl) == [k \in DOMAIN pl |-> pl[k].name]

PluginAtReversed(pl, k) == pl[Len(pl) + 1 - k]
\* for (const plugin of plugins): the k-th iteration takes the k-th element
PluginAt(pl, k) == pl[k]

\* result.use(resolvedPlugin), or the app a factory returns after applying
\* itself to `result`
Use(res, name) == Append(res, name)

\* a promise the loop awaits can be resumed from: Promise.resolve(x) of a
\* plain value at once, a pending promise once it has resolved
Awaitable(k) ==
    \/ PluginAt(plugins, k).kind \in {"instance", "factory"}
    \/ PluginAt(plugins, k).name \in Range(settled)

ComposeStart ==
    /\ plugins \in GenericPluginLists \cup {ServerPlugins}
    /\ cPc = "loop"
    /\ idx = 0
    /\ settled = <<>>
    /\ result = BaseApp

ComposeIdle ==
    /\ plugins = <<>>
    /\ cPc = "done"
    /\ idx = 0
    /\ settled = <<>>
    /\ result = <<>>

\* a promise among the plugins resolves; promises passed in the array exist
\* before composePlugins runs and resolve in any order, the promise of an
\* async factory exists once the factory has been called
Settle(k) ==
    /\ k \in DOMAIN plugins
    /\ plugins[k].name \notin Range(settled)
    /\ \/ plugins[k].kind = "promise"
       \/ /\ plugins[k].kind = "asyncFactory"
          /\ \E j \in 1..idx : PluginAt(plugins, j) = plugins[k]
    /\ settled' = Append(settled, plugins[k].name)
    /\ UNCHANGED <<plugins, cPc, idx, result>>
    /\ UNCHANGED notCompose

\* the loop takes the next plugin and runs up to the await of its branch: a
\* factory is called with `result` (a sync factory applies itself at once)
LoopStep ==
    /\ cPc = "loop"
    /\ idx < Len(plugins)
    /\ idx' = idx + 1
    /\ cPc' = "await"
    /\ result' = IF PluginAt(plugins, idx + 1).kind = "factory"
                   THEN Use(result, PluginAt(plugins, idx + 1).name)
                   ELSE result
    /\ UNCHANGED <<plugins, settled>>
    /\ UNCHANGED notCompose

\* the await returns: result = await Promise.resolve(pluginResult), or
\* result = result.use(resolvedPlugin)
Resume ==
    /\ cPc = "await"
    /\ Awaitable(idx)
    /\ result' = IF PluginAt(plugins, idx).kind = "factory"
                   THEN result
                   ELSE Use(result, PluginAt(plugins, idx).name)
    /\ cPc' = "loop"
    /\ UNCHANGED <<plugins, idx, settled>>
    /\ UNCHANGED notCompose

\* return result
Return ==
    /\ cPc = "loop"
    /\ idx = Len(plugins)
    /\ cPc' = "done"
    /\ UNCHANGED <<plugins, idx, settled, result>>
    /\ UNCHANGED notCompose

ComposeNext ==
    \/ \E k \in DOMAIN plugins : Settle(k)
    \/ LoopStep
    \/ Resume
    \/ Return

(***************************************************************************)
(* Request handling: the auth macro (src/auth-service.ts), userController  *)
(* (src/modules/v1/user/index.ts), v1 (src/modules/v1/index.ts) and the    *)
(* composed app (src/server.ts).  Paths are sequences of segments.         *)
(***************************************************************************)
MaxRequests == 2

\* the session store behind auth.api.getSession: token -> user
Sessions == [t \in {"sA", "sB"} |-> IF t = "sA" THEN "alice" ELSE "bob"]

\* the session cookie of a request: absent, not a live session, or a token
Cookies == {"none", "stale", "sA", "sB"}

NoSession == [user |-> "null", token |-> "null"]

\* the context before resolve has run
Unresolved == [user |-> "unset", token |-> "unset"]

\* auth.api.getSession({ headers: request.headers })
GetSession(cookie) ==
    IF cookie \in DOMAIN Sessions
      THEN [user |-> Sessions[cookie], token |-> cookie]
      ELSE NoSession

NoRoute == [method |-> "-", path |-> <<>>, auth |-> FALSE, handler |-> "-"]

\* new Elysia({ prefix: '/user' }).use(authService).get('/me', ...)
\*   .patch('/me', ...).get('/:id', ...)
UserControllerRoutes ==
    { [method |-> "GET",   path |-> <<"user", "me">>,  auth |-> TRUE,
       handler |-> "getMe"],
      [method |-> "PATCH", path |-> <<"user", "me">>,  auth |-> TRUE,
       handler |-> "patchMe"],
      [method |-> "GET",   path |-> <<"user", ":id">>, auth |-> FALSE,
       handler |-> "getById"] }

\* new Elysia({ prefix: '/api/v1', name: 'api.v1' }).get('/health', ...):
\* v1 declares the health route and uses no controller
V1Routes ==
    { [method |-> "GET", path |-> <<"api", "v1", "health">>, auth |-> FALSE,
       handler |-> "health"] }

\* the routes of `app`: of the plugins of server.ts only v1 declares API
\* routes
AppRoutes == V1Routes

RoutesOf(target) ==
    IF target = "app" THEN AppRoutes ELSE UserControllerRoutes

IsParam(seg) == seg = ":id"

Matches(route, method, path) ==
    /\ route.method = method
    /\ Len(route.path) = Len(path)
    /\ \A k \in DOMAIN path : IsParam(route.path[k]) \/ route.path[k] = path[k]

IsStatic(route) == \A k \in DOMAIN route.path : ~IsParam(route.path[k])

\* the router: a static route wins over a parametric one
MatchRoute(routes, method, path) ==
    LET hits == {rt \in routes : Matches(rt, method, path)}
        exact == {rt \in hits : IsStatic(rt)}
    IN  IF exact # {} THEN CHOOSE rt \in exact : TRUE
        ELSE IF hits # {} THEN CHOOSE rt \in hits : TRUE
        ELSE NoRoute

\* basePath: '/api/auth'
UnderAuthBasePath(path) ==
    Len(path) >= 2 /\ path[1] = "api" /\ path[2] = "auth"

\* a request no route matches: on `app` it falls to the wildcard of
\* .mount(auth.handler), where Better Auth serves its own paths and answers
\* 404 to the rest; on a bare controller it is NOT_FOUND
Unrouted(target, path) ==
    IF target = "app" /\ UnderAuthBasePath(path)
      THEN [status |-> 200, body |-> "better-auth"]
      ELSE [status |-> 404, body |-> "NOT_FOUND"]

ResolveNeverThrows(session) == FALSE
\* if (!session) { throw status(401, { error: 'Unauthorized' }) }
ResolveThrows(session) == session = NoSession

\* the requests the environment sends
RequestInputs ==
    { [target |-> "app", method |-> "GET", path |-> <<"v1", "user", "me">>],
      [target |-> "app", method |-> "GET",
       path |-> <<"api", "v1", "user", "me">>],
      [target |-> "app", method |-> "GET", path |-> <<"api", "v1", "health">>],
      [target |-> "app", method |-> "GET",
       path |-> <<"api", "auth", "get-session">>],
      [target |-> "userController", method |-> "GET",
       path |-> <<"user", "me">>] }

RouteOf(rq) == MatchRoute(RoutesOf(rq.target), rq.method, rq.path)

HttpStart == reqs = <<>>
HttpIdle == reqs = <<>>

\* a request arrives at app.handle / userController.handle
Receive(inp, cookie) ==
    /\ Len(reqs) < MaxRequests
    /\ reqs' = Append(reqs,
          [target |-> inp.target, method |-> inp.method, path |-> inp.path,
           cookie |-> cookie, pc |-> "route", session |-> Unresolved,
           user |-> "unset", ran |-> 0, status |-> 0, body |-> "-"])
    /\ UNCHANGED notHttp

\* routing: an unmatched request is answered at once; a matched one goes to
\* the macro's resolve when the route has auth: true, else to its handler
Dispatch(r) ==
    /\ reqs[r].pc = "route"
    /\ LET rt == RouteOf(reqs[r])
           un == Unrouted(reqs[r].target, reqs[r].path)
       IN  reqs' = [reqs EXCEPT ![r] =
              IF rt = NoRoute
                THEN [@ EXCEPT !.pc = "done", !.status = un.status,
                               !.body = un.body]
              ELSE IF rt.auth THEN [@ EXCEPT !.pc = "resolve"]
              ELSE [@ EXCEPT !.pc = "handler"]]
    /\ UNCHANGED notHttp

\* auth.resolve after its await: the session getSession returned for this
\* request's headers, 401 on none, else user and session into the context
Resolve(r) ==
    /\ reqs[r].pc = "resolve"
    /\ LET session == GetSession(reqs[r].cookie)
       IN  reqs' = [reqs EXCEPT ![r] =
              IF ResolveThrows(session)
                THEN [@ EXCEPT !.pc = "done", !.session = session,
                               !.status = 401, !.body = "Unauthorized"]
                ELSE [@ EXCEPT !.pc = "handler", !.session = session,
                               !.user = session.user]]
    /\ UNCHANGED notHttp

\* the route handler: GET /me returns the context's user, GET /health the
\* health record
Handle(r) ==
    /\ reqs[r].pc = "handler"
    /\ RouteOf(reqs[r]).handler \in {"getMe", "health"}
    /\ reqs' = [reqs EXCEPT ![r] =
          [@ EXCEPT !.pc = "done", !.ran = @ + 1, !.status = 200,
                    !.body = IF RouteOf(reqs[r]).handler = "getMe"
                               THEN reqs[r].user ELSE "healthy"]]
    /\ UNCHANGED notHttp

HttpNext ==
    \/ \E inp \in RequestInputs, cookie \in Cookies : Receive(inp, cookie)
    \/ \E r \in DOMAIN reqs : Dispatch(r)
    \/ \E r \in DOMAIN reqs : Resolve(r)
    \/ \E r \in DOMAIN reqs : Handle(r)

(***************************************************************************)
(* LoginForm (public sign-in form): the OTP sign-in state machine.         *)
(* Strings are sequences of one-character strings.                         *)
(***************************************************************************)
MaxResends == 1

Digits == {"0", "1", "2", "3", "4", "5", "6", "7", "8", "9"}
Punctuation == {" ", "(", ")", "-", "."}

RECURSIVE TrimStart(_)
TrimStart(str) ==
    IF str # <<>> /\ Head(str) = " " THEN TrimStart(Tail(str)) ELSE str

RECURSIVE TrimEnd(_)
TrimEnd(str) ==
    IF str # <<>> /\ str[Len(str)] = " "
      THEN TrimEnd(SubSeq(str, 1, Len(str) - 1)) ELSE str

\* value.identifier.trim()
Trim(str) == TrimEnd(TrimStart(str))

IsPunctuation(c) == c \in Punctuation
IsNotPunctuation(c) == ~IsPunctuation(c)

\* the digits (and a leading +) of a number as typed
Dialled(str) == SelectSeq(str, IsNotPunctuation)

AllDigits(str) == \A k \in DOMAIN str : str[k] \in Digits

\* a North American national number: NXX NXX XXXX
ValidNanp(d) ==
    /\ Len(d) = 10
    /\ AllDigits(d)
    /\ d[1] \notin {"0", "1"}
    /\ d[4] \notin {"0", "1"}

\* a United Kingdom national (significant) number, geographic or mobile
ValidUk(d) ==
    /\ Len(d) = 10
    /\ AllDigits(d)
    /\ d[1] \in {"2", "7"}

\* isValidPhoneNumber(input, "US"): a number in international format is
\* validated for the country of its calling code, a number without + as a
\* national number of the default country
IsValidPhoneNumber(str) ==
    LET d == Dialled(str)
    IN  IF d # <<>> /\ Head(d) = "+"
          THEN \/ /\ Len(d) = 12 /\ d[2] = "1"
                  /\ ValidNanp(SubSeq(d, 3, 12))
               \/ /\ Len(d) = 13 /\ d[2] = "4" /\ d[3] = "4"
                  /\ ValidUk(SubSeq(d, 4, 13))
          ELSE \/ ValidNanp(d)
               \/ Len(d) = 11 /\ d[1] = "1" /\ ValidNanp(SubSeq(d, 2, 11))

\* parsePhoneNumberWithError(input, "US").format("E.164")
FormatE164(str) ==
    LET d == Dialled(str)
    IN  IF d # <<>> /\ Head(d) = "+" THEN d
        ELSE IF Len(d) = 11 THEN <<"+">> \o d
        ELSE <<"+", "1">> \o d

\* const detectedMethod = isPhone ? "phone" : "email"
DetectedMethod(input) == IF IsValidPhoneNumber(input) THEN "phone" ELSE "email"

\* what the user may type into the identifier field
IdentifierInputs ==
    { <<" ", "a", "@", "b", ".", "c", " ">>,
      <<"1", "2", "3">>,
      <<"(", "2", "1", "3", ")", " ", "3", "7", "3", "-", "4", "2", "5", "3">>,
      <<"+", "4", "4", "2", "0", "7", "9", "4", "6", "0", "9", "5", "8">> }

\* what the user may type into the OTP field (InputOTP, maxLength 6)
OtpInputs ==
    { <<"1", "2", "3">>, <<"1", "2", "3", "4", "5", "6">> }

\* how a request of the auth client ends: a result without error, a
\* result { error } (the client returns server errors, as the verify branch
\* expects), or a thrown exception (the fetch itself failed)
Outcomes == {"ok", "error", "throw"}

SentToasts ==
    {"Verification code sent to your phone",
     "Verification code sent to your email"}

NoRequest == [channel |-> "-", dest |-> <<>>, input |-> <<>>]
NoVerify == [endpoint |-> "-", id |-> <<>>, otp |-> <<>>,
             sendChannel |-> "-", sendDest |-> <<>>]
NoResend == [channel |-> "-", dest |-> <<>>,
             sendChannel |-> "-", sendDest |-> <<>>]

\* if (data.otp.length !== 6) in formSchema
FormOtpLength == 6

\* emailOTP({ otpLength: 6 }) and phoneNumber({ otpLength: 6 }) of the
\* server's Better Auth configuration
EmailOtpLength == 6
PhoneOtpLength == 6

\* the OTP length the server issues on a channel
ServerOtpLength(method) ==
    IF method = "email" THEN EmailOtpLength ELSE PhoneOtpLength

FormValidIgnoresOtp ==
    /\ Len(fIdentifier) >= 1
    /\ Len(fIdentifier) <= 255
\* formSchema: identifier of 1..255 characters, and on the verify step an
\* otp of exactly 6 characters
FormValid ==
    /\ Len(fIdentifier) >= 1
    /\ Len(fIdentifier) <= 255
    /\ fStep = "verify" => Len(fOtp) = FormOtpLength

IdentifierKeepsInput(req) == req.input
\* form.setFieldValue("identifier", formattedPhone) /
\* form.setFieldValue("identifier", input)
IdentifierAfterSend(req) == req.dest

\* the login step's try/catch: only an exception reaches the catch block;
\* the awaited result is not inspected
SendCaught(outcome) == outcome = "throw"

\* if (value.method === "email") signIn.emailOtp else phoneNumber.verify
VerifyEndpoint(method) ==
    IF method = "email" THEN "signIn.emailOtp" ELSE "phoneNumber.verify"

FormStart ==
    /\ fIdentifier = <<>>
    /\ fOtp = <<>>
    /\ fStep = "login"
    /\ fMethod = "email"
    /\ isSubmitting = FALSE
    /\ sPc = "idle"
    /\ sReq = NoRequest
    /\ rCur = <<>>
    /\ rOld = <<>>
    /\ cooling = FALSE
    /\ toast = "-"
    /\ lastSend = NoRequest
    /\ lastInput = <<>>
    /\ sendOutcome = "-"
    /\ lastVerify = NoVerify
    /\ lastResend = NoResend

FormIdle == FormStart

\* the user types into the identifier field (rendered on the login step,
\* also while a submit is in flight)
EditIdentifier(v) ==
    /\ fStep = "login"
    /\ v # fIdentifier
    /\ fIdentifier' = v
    /\ UNCHANGED <<fOtp, fStep, fMethod, isSubmitting, sPc, sReq, rCur, rOld,
                   cooling, toast, lastSend, lastInput, sendOutcome,
                   lastVerify, lastResend>>
    /\ UNCHANGED notForm

\* the user types into the OTP field (rendered on the verify step)
EditOtp(v) ==
    /\ fStep = "verify"
    /\ v # fOtp
    /\ fOtp' = v
    /\ UNCHANGED <<fIdentifier, fStep, fMethod, isSubmitting, sPc, sReq, rCur,
                   rOld, cooling, toast, lastSend, lastInput, sendOutcome,
                   lastVerify, lastResend>>
    /\ UNCHANGED notForm

\* onSubmit on the login step, up to the await of the send-code request
SubmitLogin ==
    /\ fStep = "login"
    /\ ~isSubmitting
    /\ FormValid
    /\ LET input == Trim(fIdentifier)
           detectedMethod == DetectedMethod(input)
           req == [channel |-> detectedMethod,
                   dest |-> IF detectedMethod = "phone"
                              THEN FormatE164(input) ELSE input,
                   input |-> input]
       IN  /\ fMethod' = detectedMethod
           /\ sReq' = req
           /\ lastSend' = req
    /\ lastInput' = fIdentifier
    /\ isSubmitting' = TRUE
    /\ sPc' = "sending"
    /\ UNCHANGED <<fIdentifier, fOtp, fStep, rCur, rOld, cooling, toast,
                   sendOutcome, lastVerify, lastResend>>
    /\ UNCHANGED notForm

\* the send-code request ends and onSubmit runs to its end
SendCompletes(outcome) ==
    /\ sPc = "sending"
    /\ IF SendCaught(outcome)
         THEN /\ toast' = "Failed to send verification code"
              /\ UNCHANGED <<fIdentifier, fStep>>
         ELSE /\ fIdentifier' = IdentifierAfterSend(sReq)
              /\ toast' = IF sReq.channel = "phone"
                            THEN "Verification code sent to your phone"
                            ELSE "Verification code sent to your email"
              /\ fStep' = "verify"
    /\ sendOutcome' = outcome
    /\ isSubmitting' = FALSE
    /\ sPc' = "idle"
    /\ sReq' = NoRequest
    /\ UNCHANGED <<fOtp, fMethod, rCur, rOld, cooling, lastSend, lastInput,
                   lastVerify, lastResend>>
    /\ UNCHANGED notForm

\* onSubmit on the verify step, up to the await of the verification request
SubmitVerify ==
    /\ fStep = "verify"
    /\ ~isSubmitting
    /\ FormValid
    /\ sReq' = [channel |-> VerifyEndpoint(fMethod), dest |-> fIdentifier,
                input |-> fOtp]
    /\ lastVerify' = [endpoint |-> VerifyEndpoint(fMethod), id |-> fIdentifier,
                      otp |-> fOtp, sendChannel |-> lastSend.channel,
                      sendDest |-> lastSend.dest]
    /\ isSubmitting' = TRUE
    /\ sPc' = "verifying"
    /\ UNCHANGED <<fIdentifier, fOtp, fStep, fMethod, rCur, rOld, cooling,
                   toast, lastSend, lastInput, sendOutcome, lastResend>>
    /\ UNCHANGED notForm

\* the verification request ends: a toast, and the form stays where it is
VerifyCompletes(outcome) ==
    /\ sPc = "verifying"
    /\ toast' = CASE outcome = "ok" -> "Successfully signed in!"
                  [] outcome = "error" -> "Invalid verification code"
                  [] OTHER -> "Failed to verify code"
    /\ isSubmitting' = FALSE
    /\ sPc' = "idle"
    /\ sReq' = NoRequest
    /\ UNCHANGED <<fIdentifier, fOtp, fStep, fMethod, rCur, rOld, cooling,
                   lastSend, lastInput, sendOutcome, lastVerify, lastResend>>
    /\ UNCHANGED notForm

\* handleBack; leaving the verify step unmounts the ResendButton, whose
\* state is lost while its request stays in flight
Back ==
    /\ fStep = "verify"
    /\ fStep' = "login"
    /\ fOtp' = <<>>
    /\ rOld' = rOld \o rCur
    /\ rCur' = <<>>
    /\ cooling' = FALSE
    /\ UNCHANGED <<fIdentifier, fMethod, isSubmitting, sPc, sReq, toast,
                   lastSend, lastInput, sendOutcome, lastVerify, lastResend>>
    /\ UNCHANGED notForm

\* handleResendClick and handleResend up to the await
ResendClick ==
    /\ fStep = "verify"
    /\ ~cooling
    /\ rCur = <<>>
    /\ Len(rOld) < MaxResends
    /\ rCur' = <<fMethod>>
    /\ lastSend' = [channel |-> fMethod, dest |-> fIdentifier,
                    input |-> fIdentifier]
    /\ lastResend' = [channel |-> fMethod, dest |-> fIdentifier,
                      sendChannel |-> lastSend.channel,
                      sendDest |-> lastSend.dest]
    /\ UNCHANGED <<fIdentifier, fOtp, fStep, fMethod, isSubmitting, sPc, sReq,
                   rOld, cooling, toast, lastInput, sendOutcome, lastVerify>>
    /\ UNCHANGED notForm

ResendToast(channel, outcome) ==
    IF outcome = "throw" THEN "Failed to resend code"
    ELSE IF channel = "email" THEN "Verification code resent to your email"
    ELSE "Verification code resent to your phone"

\* the resend of the mounted button ends: setCooldown(30) unless it threw,
\* setIsResending(false) either way
ResendCompletes(outcome) ==
    /\ rCur # <<>>
    /\ toast' = ResendToast(rCur[1], outcome)
    /\ cooling' = (outcome # "throw")
    /\ rCur' = <<>>
    /\ UNCHANGED <<fIdentifier, fOtp, fStep, fMethod, isSubmitting, sPc, sReq,
                   rOld, lastSend, lastInput, sendOutcome, lastVerify,
                   lastResend>>
    /\ UNCHANGED notForm

\* a resend of an unmounted button ends: only its toast is seen
OldResendCompletes(k, outcome) ==
    /\ k \in DOMAIN rOld
    /\ toast' = ResendToast(rOld[k], outcome)
    /\ rOld' = SubSeq(rOld, 1, k - 1) \o SubSeq(rOld, k + 1, Len(rOld))
    /\ UNCHANGED <<fIdentifier, fOtp, fStep, fMethod, isSubmitting, sPc, sReq,
                   rCur, cooling, lastSend, lastInput, sendOutcome, lastVerify,
                   lastResend>>
    /\ UNCHANGED notForm

\* the interval timer has counted the cooldown down to 0
CooldownEnds ==
    /\ cooling
    /\ cooling' = FALSE
    /\ UNCHANGED <<fIdentifier, fOtp, fStep, fMethod, isSubmitting, sPc, sReq,
                   rCur, rOld, toast, lastSend, lastInput, sendOutcome,
                   lastVerify, lastResend>>
    /\ UNCHANGED notForm

FormNext ==
    \/ \E v \in IdentifierInputs : EditIdentifier(v)
    \/ \E v \in OtpInputs : EditOtp(v)
    \/ SubmitLogin
    \/ \E outcome \in Outcomes : SendCompletes(outcome)
    \/ SubmitVerify
    \/ \E outcome \in Outcomes : VerifyCompletes(outcome)
    \/ Back
    \/ ResendClick
    \/ \E outcome \in Outcomes : ResendCompletes(outcome)
    \/ \E k \in DOMAIN rOld, outcome \in Outcomes : OldResendCompletes(k, outcome)
    \/ CooldownEnds

(***************************************************************************)
(* signUpOnVerification of the phoneNumber plugin (src/lib/auth.ts): the   *)
(* temporary e-mail and name of a user signing up by phone.                *)
(***************************************************************************)
MaxPhoneLen == 4

\* '@temp.wysteria.io'
TempDomain ==
    <<"@", "t", "e", "m", "p", ".", "w", "y", "s", "t", "e", "r", "i", "a",
      ".", "i", "o">>

\* 'User '
NamePrefix == <<"U", "s", "e", "r", " ">>

RECURSIVE ReplaceFirstPlus(_)
ReplaceFirstPlus(str) ==
    IF str = <<>> THEN <<>>
    ELSE IF Head(str) = "+" THEN Tail(str)
    ELSE <<Head(str)>> \o ReplaceFirstPlus(Tail(str))

\* phoneNumber.replace(/\+/g, ''): every + is removed
RECURSIVE ReplaceAllPlus(_)
ReplaceAllPlus(str) ==
    IF str = <<>> THEN <<>>
    ELSE IF Head(str) = "+" THEN ReplaceAllPlus(Tail(str))
    ELSE <<Head(str)>> \o ReplaceAllPlus(Tail(str))

\* getTempEmail: (phoneNumber) =>
\*   `${phoneNumber.replace(/\+/g, '')}@temp.wysteria.io`
GetTempEmail(phoneNumber) == ReplaceAllPlus(phoneNumber) \o TempDomain

\* getTempName: (phoneNumber) => `User ${phoneNumber}`
GetTempName(phoneNumber) == NamePrefix \o phoneNumber

PhoneChars == {"+", "1", "2"}

\* the phone numbers handed to signUpOnVerification: the E.164 numbers the
\* sign-in form sends, and every short string over +, 1, 2
PhoneNumbers ==
    {FormatE164(Trim(v)) : v \in {w \in IdentifierInputs :
                                     IsValidPhoneNumber(Trim(w))}}
    \cup UNION {[1..n -> PhoneChars] : n \in 0..MaxPhoneLen}

TempStart ==
    /\ tePhone \in PhoneNumbers
    /\ teDone = FALSE
    /\ teEmail = <<>>
    /\ teName = <<>>

TempIdle ==
    /\ tePhone = <<>>
    /\ teDone = TRUE
    /\ teEmail = <<>>
    /\ teName = <<>>

\* a phone number with no user is verified: the plugin creates the user with
\* the temporary e-mail and name
SignUpOnVerification ==
    /\ ~teDone
    /\ teEmail' = GetTempEmail(tePhone)
    /\ teName' = GetTempName(tePhone)
    /\ teDone' = TRUE
    /\ UNCHANGED tePhone
    /\ UNCHANGED notTemp

TempNext == SignUpOnVerification

(***************************************************************************)
(* The CORS plugin (src/lib/plugins/cors.ts): which origins it allows.     *)
(***************************************************************************)
Https == <<"h", "t", "t", "p", "s", ":", "/", "/">>
Http == <<"h", "t", "t", "p", ":", "/", "/">>

\* pkg.name.toLowerCase()
PkgName == <<"w", "y", "s", "t", "e", "r", "i", "a">>

\* the character class [a-z0-9-]
LabelChars ==
    {"a", "b", "c", "d", "e", "f", "g", "h", "i", "j", "k", "l", "m", "n",
     "o", "p", "q", "r", "s", "t", "u", "v", "w", "x", "y", "z",
     "0", "1", "2", "3", "4", "5", "6", "7", "8", "9", "-"}

\* the regular expression's . : any character but a line terminator
AnyChar(c) == c \notin {"\n", "\r"}

\* new RegExp(`^https://([a-z0-9-]+.)?${pkg.name.toLowerCase()}.io$`).test:
\* the pattern is anchored and all that follows the optional group has a
\* fixed length, so the group is what lies between the scheme and the last
\* Len(PkgName) + 3 characters
RegexTest(str) ==
    LET n == Len(str)
        p == Len(PkgName)
    IN  /\ n >= Len(Https) + p + 3
        /\ SubSeq(str, 1, Len(Https)) = Https
        /\ SubSeq(str, n - 1, n) = <<"i", "o">>
        /\ AnyChar(str[n - 2])
        /\ SubSeq(str, n - 2 - p, n - 3) = PkgName
        /\ LET group == SubSeq(str, Len(Https) + 1, n - 3 - p)
           IN  \/ group = <<>>
               \/ /\ Len(group) >= 2
                  /\ \A k \in 1..(Len(group) - 1) : group[k] \in LabelChars
                  /\ AnyChar(group[Len(group)])

\* const isProduction = import.meta.env.NODE_ENV === 'production'
CorsIsProduction == corsNodeEnv = "production"

\* const allowedOrigins = isProduction ? regex : true, as @elysiajs/cors
\* applies it to the request's Origin header
OriginAllowed(origin) == IF CorsIsProduction THEN RegexTest(origin) ELSE TRUE

Schemes == {Https, Http}

Subdomains ==
    { <<>>,
      <<"a", "p", "p", ".">>,
      <<"a", "-", "1", ".">>,
      <<"e", "v", "i", "l">>,
      <<"A", "p", "p", ".">>,
      <<"a", ".", "b", ".">>,
      <<"a", "_", "b", ".">>,
      <<".">> }

Tails == { <<>>, <<".", "e", "v", "i", "l", ".", "c", "o", "m">> }

\* the Origin headers of the requests
OriginInputs ==
    { sch \o sub \o PkgName \o <<d>> \o <<"i", "o">> \o tail :
        sch \in Schemes, sub \in Subdomains, d \in {".", "x"}, tail \in Tails }

CorsStart ==
    /\ corsNodeEnv \in NodeEnvs
    /\ corsOrigin \in OriginInputs
    /\ corsPc = "request"
    /\ corsAllowed = FALSE

CorsIdle ==
    /\ corsNodeEnv = "development"
    /\ corsOrigin = <<>>
    /\ corsPc = "idle"
    /\ corsAllowed = FALSE

\* the plugin decides on the request's origin
HandleOrigin ==
    /\ corsPc = "request"
    /\ corsAllowed' = OriginAllowed(corsOrigin)
    /\ corsPc' = "done"
    /\ UNCHANGED <<corsNodeEnv, corsOrigin>>
    /\ UNCHANGED notCors

CorsNext == HandleOrigin

(***************************************************************************)
(* userController (src/modules/v1/user/index.ts) over the user table       *)
(* (src/modules/v1/user/service.ts): GET /user/me, PATCH /user/me and      *)
(* GET /user/:id.  Timestamps are left out of the records.                 *)
(***************************************************************************)
MaxUserRequests == 2

Ann == <<"A", "n", "n">>
Bob == <<"B", "o", "b">>
Bea == <<"B", "e", "a">>
Cy == <<"C", "y">>

ImageA == "https://img.example/a.png"
ImageB == "https://img.example/b.png"

\* the rows of the user table when the server starts
UserTableAtStart ==
    [u \in {"alice", "bob"} |->
        IF u = "alice" THEN [name |-> Ann, image |-> ImageA]
                       ELSE [name |-> Bob, image |-> "null"]]

\* the user a later sign-up adds
SignUpRows == [u \in {"carol"} |-> [name |-> Cy, image |-> "null"]]

\* findFirst finding no row
Undefined == [id |-> "undefined", name |-> <<>>, image |-> "undefined"]

RowOf(table, id) ==
    [id |-> id, name |-> table[id].name, image |-> table[id].image]

FindFirstNoWhere(table, id) ==
    IF DOMAIN table = {} THEN Undefined
    ELSE RowOf(table, CHOOSE u \in DOMAIN table : TRUE)

\* db.query.user.findFirst({ where: eq(schema.user.id, id) })
FindFirstById(table, id) ==
    IF id \in DOMAIN table THEN RowOf(table, id) ELSE Undefined

\* User.getUserById(id)
GetUserById(id) == FindFirstById(userTable, id)

\* the user auth.api.getSession returns with a session: the session's row
SessionUser(session) == FindFirstById(userTable, session.user)

NoBody ==
    [present |-> FALSE, hasName |-> FALSE, name |-> <<>>,
     hasImage |-> FALSE, image |-> "-"]

\* the bodies sent to PATCH /user/me
BodyInputs ==
    { [present |-> TRUE, hasName |-> TRUE, name |-> Bea,
       hasImage |-> FALSE, image |-> "-"],
      [present |-> TRUE, hasName |-> TRUE, name |-> Bea,
       hasImage |-> TRUE, image |-> ImageB],
      [present |-> TRUE, hasName |-> TRUE, name |-> <<>>,
       hasImage |-> FALSE, image |-> "-"],
      [present |-> TRUE, hasName |-> FALSE, name |-> <<>>,
       hasImage |-> TRUE, image |-> "not a uri"] }

\* t.String({ format: 'uri' })
IsUri(str) == str \in {ImageA, ImageB}

\* UserModel.updateProfile: name optional, 1 to 100 characters; image
\* optional, a uri or null
UpdateProfileValid(body) ==
    /\ body.hasName => (Len(body.name) >= 1 /\ Len(body.name) <= 100)
    /\ body.hasImage => (body.image = "null" \/ IsUri(body.image))

\* { ...user, ...body }
Spread(user, body) ==
    [id |-> user.id,
     name |-> IF body.hasName THEN body.name ELSE user.name,
     image |-> IF body.hasImage THEN body.image ELSE user.image]

UserCookies == {"none", "sA", "sB"}

\* the requests sent to userController
UserRequestInputs ==
    { [method |-> "GET", path |-> <<"user", "me">>, body |-> NoBody] }
    \cup { [method |-> "PATCH", path |-> <<"user", "me">>, body |-> b] :
             b \in BodyInputs }
    \cup { [method |-> "GET", path |-> <<"user", id>>, body |-> NoBody] :
             id \in {"alice", "carol", "ghost"} }

UserRouteOf(rq) == MatchRoute(UserControllerRoutes, rq.method, rq.path)

NoPatches == [u \in {"alice", "bob", "carol"} |-> NoBody]

UserStart ==
    /\ userTable = UserTableAtStart
    /\ uReqs = <<>>
    /\ lastPatch = NoPatches

UserIdle ==
    /\ userTable = UserTableAtStart
    /\ uReqs = <<>>
    /\ lastPatch = NoPatches

\* Better Auth creates the row of a user signing up
CreateUser(u) ==
    /\ u \in DOMAIN SignUpRows
    /\ u \notin DOMAIN userTable
    /\ userTable' =
          [v \in DOMAIN userTable \cup {u} |->
              IF v = u THEN SignUpRows[u] ELSE userTable[v]]
    /\ UNCHANGED <<uReqs, lastPatch>>
    /\ UNCHANGED notUser

\* a request arrives at userController.handle and is routed; the body of
\* PATCH /user/me is validated before the macro's resolve runs
UserReceive(inp, cookie) ==
    /\ Len(uReqs) < MaxUserRequests
    /\ LET rt == UserRouteOf(inp)
           rq == [method |-> inp.method, path |-> inp.path,
                  body |-> inp.body, cookie |-> cookie,
                  handler |-> rt.handler, user |-> Undefined,
                  seen |-> lastPatch, pc |-> "resolve", status |-> 0,
                  msg |-> "-", resp |-> Undefined]
       IN  uReqs' = Append(uReqs,
              IF rt.handler = "patchMe" /\ ~UpdateProfileValid(inp.body)
                THEN [rq EXCEPT !.pc = "done", !.status = 422,
                                !.msg = "validation"]
              ELSE IF rt.auth THEN rq
              ELSE [rq EXCEPT !.pc = "handler"])
    /\ UNCHANGED <<userTable, lastPatch>>
    /\ UNCHANGED notUser

\* auth.resolve: 401 without a session, else the session's user into the
\* context
UserResolve(r) ==
    /\ uReqs[r].pc = "resolve"
    /\ LET session == GetSession(uReqs[r].cookie)
       IN  uReqs' = [uReqs EXCEPT ![r] =
              IF ResolveThrows(session)
                THEN [@ EXCEPT !.pc = "done", !.status = 401,
                               !.msg = "Unauthorized"]
                ELSE [@ EXCEPT !.pc = "handler",
                               !.user = SessionUser(session)]]
    /\ UNCHANGED <<userTable, lastPatch>>
    /\ UNCHANGED notUser

\* .get('/me', ({ user }) => user)
GetMe(r) ==
    /\ uReqs[r].pc = "handler"
    /\ uReqs[r].handler = "getMe"
    /\ uReqs' = [uReqs EXCEPT ![r] =
          [@ EXCEPT !.pc = "done", !.status = 200, !.resp = uReqs[r].user]]
    /\ UNCHANGED <<userTable, lastPatch>>
    /\ UNCHANGED notUser

\* .patch('/me', ({ user, body }) => ({ ...user, ...body, updatedAt })):
\* the handler answers with the merged record and writes nothing
PatchMe(r) ==
    /\ uReqs[r].pc = "handler"
    /\ uReqs[r].handler = "patchMe"
    /\ uReqs' = [uReqs EXCEPT ![r] =
          [@ EXCEPT !.pc = "done", !.status = 200,
                    !.resp = Spread(uReqs[r].user, uReqs[r].body)]]
    /\ lastPatch' = [lastPatch EXCEPT ![uReqs[r].user.id] = uReqs[r].body]
    /\ UNCHANGED userTable
    /\ UNCHANGED notUser

\* .get('/:id', ...): const user = await User.getUserById(id);
\* if (!user) throw status(404, 'User not found'); return user
GetById(r) ==
    /\ uReqs[r].pc = "handler"
    /\ uReqs[r].handler = "getById"
    /\ LET user == GetUserById(uReqs[r].path[2])
       IN  uReqs' = [uReqs EXCEPT ![r] =
              IF user = Undefined
                THEN [@ EXCEPT !.pc = "done", !.status = 404,
                               !.msg = "User not found"]
                ELSE [@ EXCEPT !.pc = "done", !.status = 200,
                               !.resp = user]]
    /\ UNCHANGED <<userTable, lastPatch>>
    /\ UNCHANGED notUser

UserNext ==
    \/ \E u \in DOMAIN SignUpRows : CreateUser(u)
    \/ \E inp \in UserRequestInputs, cookie \in UserCookies :
          UserReceive(inp, cookie)
    \/ \E r \in DOMAIN uReqs : UserResolve(r)
    \/ \E r \in DOMAIN uReqs : GetMe(r)
    \/ \E r \in DOMAIN uReqs : PatchMe(r)
    \/ \E r \in DOMAIN uReqs : GetById(r)

(***************************************************************************)
(* Specifications                                                          *)
(***************************************************************************)
ClusterIdle ==
    /\ nodeEnv = "development"
    /\ numCPUs = 1
    /\ pPc = "off"
    /\ i = 0
    /\ pLoads = 0
    /\ wState = <<>>
    /\ wLoads = <<>>
    /\ exitQueue = <<>>
    /\ exitHandler = FALSE
    /\ respawns = 0
    /\ exits = 0

ClusterInit ==
    ClusterStart /\ ComposeIdle /\ HttpIdle /\ FormIdle /\ TempIdle /\ CorsIdle
      /\ UserIdle
ComposeInit ==
    ComposeStart /\ ClusterIdle /\ HttpIdle /\ FormIdle /\ TempIdle /\ CorsIdle
      /\ UserIdle
HttpInit ==
    HttpStart /\ ClusterIdle /\ ComposeIdle /\ FormIdle /\ TempIdle /\ CorsIdle
      /\ UserIdle
FormInit ==
    FormStart /\ ClusterIdle /\ ComposeIdle /\ HttpIdle /\ TempIdle /\ CorsIdle
      /\ UserIdle
TempInit ==
    TempStart /\ ClusterIdle /\ ComposeIdle /\ HttpIdle /\ FormIdle /\ CorsIdle
      /\ UserIdle
CorsInit ==
    CorsStart /\ ClusterIdle /\ ComposeIdle /\ HttpIdle /\ FormIdle /\ TempIdle
      /\ UserIdle
UserInit ==
    UserStart /\ ClusterIdle /\ ComposeIdle /\ HttpIdle /\ FormIdle /\ TempIdle
      /\ CorsIdle

ClusterSpec == ClusterInit /\ [][ClusterNext]_vars

\* the primary runs its code and its event loop; workers may live forever
ClusterFairSpec ==
    ClusterSpec /\ WF_vars(PrimaryStart) /\ WF_vars(PrimaryForkLoop)
                /\ WF_vars(PrimaryRegister) /\ WF_vars(HandleExit)

ComposeSpec == ComposeInit /\ [][ComposeNext]_vars

HttpSpec == HttpInit /\ [][HttpNext]_vars

FormSpec == FormInit /\ [][FormNext]_vars

TempEmailSpec == TempInit /\ [][TempNext]_vars

CorsSpec == CorsInit /\ [][CorsNext]_vars

UserSpec == UserInit /\ [][UserNext]_vars

(***************************************************************************)
(* Claims                                                                  *)
(***************************************************************************)

\* C1: a request to a route declared with auth: true has its handler
\* executed only after getSession returned a session for that request's
\* cookie; when getSession returns none the request is answered 401
\* Unauthorized and its handler never executes.
C1_AuthMacroGuardsHandler ==
    \A r \in DOMAIN reqs :
        RouteOf(reqs[r]).auth =>
            /\ reqs[r].pc = "handler" \/ reqs[r].ran > 0 =>
                  /\ reqs[r].session # NoSession
                  /\ reqs[r].session = GetSession(reqs[r].cookie)
                  /\ reqs[r].cookie \in DOMAIN Sessions
            /\ reqs[r].session = NoSession =>
                  /\ reqs[r].pc = "done"
                  /\ reqs[r].status = 401
                  /\ reqs[r].body = "Unauthorized"
                  /\ reqs[r].ran = 0
            /\ reqs[r].pc = "done" /\ reqs[r].cookie \notin DOMAIN Sessions =>
                  reqs[r].status = 401 /\ reqs[r].ran = 0

C1_Witness ==
    /\ Len(reqs) = 2
    /\ \A r \in DOMAIN reqs : RouteOf(reqs[r]).auth /\ reqs[r].pc = "done"
    /\ reqs[1].cookie = "stale" /\ reqs[1].status = 401 /\ reqs[1].ran = 0
    /\ reqs[2].cookie = "sA" /\ reqs[2].status = 200 /\ reqs[2].ran = 1

\* C2: GET /v1/user/me on the composed app without a session cookie is
\* answered 401.
C2_AppMeWithoutCookieIs401 ==
    \A r \in DOMAIN reqs :
        ( /\ reqs[r].target = "app"
          /\ reqs[r].method = "GET"
          /\ reqs[r].path = <<"v1", "user", "me">>
          /\ reqs[r].cookie = "none"
          /\ reqs[r].pc = "done" ) => reqs[r].status = 401

\* C3: GET /v1/user/me on the composed app with a valid session cookie is
\* answered 200 with the user of that request's own session.
C3_AppMeReturnsOwnUser ==
    \A r \in DOMAIN reqs :
        ( /\ reqs[r].target = "app"
          /\ reqs[r].method = "GET"
          /\ reqs[r].path = <<"v1", "user", "me">>
          /\ reqs[r].cookie \in DOMAIN Sessions
          /\ reqs[r].pc = "done" ) =>
            reqs[r].status = 200 /\ reqs[r].body = Sessions[reqs[r].cookie]

\* C4: in production the primary forks exactly os.availableParallelism()
\* workers at startup (every later fork is a respawn), the primary never
\* imports ./server, no worker imports it more than once, and a worker that
\* has run its entry point has imported it exactly once.
C4_OneWorkerPerCore ==
    nodeEnv = "production" =>
        /\ pLoads = 0
        /\ pPc = "forking" => Forked <= numCPUs
        /\ pPc = "running" => Forked - respawns = numCPUs
        /\ \A w \in DOMAIN wState :
              /\ wLoads[w] <= 1
              /\ wState[w] = "forked" => wLoads[w] = 0
              /\ wState[w] \in {"loaded", "started"} => wLoads[w] = 1

C4_Witness ==
    /\ nodeEnv = "production"
    /\ pPc = "running"
    /\ numCPUs = MaxCPUs
    /\ respawns = 0
    /\ Forked = numCPUs
    /\ \A w \in DOMAIN wState : wState[w] = "started" /\ wLoads[w] = 1

\* C5: every dispatched 'exit' event makes the primary fork exactly one
\* worker, whatever the code or signal; once every exit event has been
\* handled the live workers number os.availableParallelism(); and, the
\* primary being scheduled, the n-th worker death leads to the n-th respawn.
C5_RespawnOnExit ==
    /\ []((pPc = "running" /\ exitQueue = <<>>)
            => Cardinality(LiveWorkers) = numCPUs)
    /\ [][(exitQueue' # exitQueue /\ Len(exitQueue') < Len(exitQueue))
            => (Len(wState') = Len(wState) + 1 /\ respawns' = respawns + 1)]_vars
    /\ \A n \in 1..MaxExits : (exits >= n) ~> (respawns >= n)

C5_Witness ==
    /\ pPc = "running"
    /\ exitQueue = <<>>
    /\ exits = MaxExits
    /\ respawns = MaxExits
    /\ \E w \in DOMAIN wState : wState[w] = "exited"
    /\ Cardinality(LiveWorkers) = numCPUs

\* C6: when NODE_ENV is not 'production' no worker is ever forked, no exit
\* handler is registered, and the single process imports ./server once.
C6_NoClusterOutsideProduction ==
    nodeEnv # "production" =>
        /\ Forked = 0
        /\ ~exitHandler
        /\ respawns = 0
        /\ pPc \in {"start", "done"}
        /\ pLoads = (IF pPc = "done" THEN 1 ELSE 0)

C6_Witness ==
    /\ nodeEnv = "test"
    /\ pPc = "done"
    /\ pLoads = 1
    /\ Forked = 0

\* C7: the app of server.ts has its middleware applied in the documented
\* order: auth mount, static files, rate limiting, server timing,
\* OpenTelemetry, CORS, OpenAPI, v1.
C7_DocumentedMiddlewareOrder ==
    (plugins = ServerPlugins /\ cPc = "done") => result = DocumentedOrder

C9_VerifyOnlyAfterSuccessfulSend ==
    /\ fStep = "verify" => sendOutcome = "ok"
    /\ toast \in SentToasts => sendOutcome = "ok"

\* a valid US number: national format, with or without the leading 1, or
\* +1 followed by the national number
IsValidUsNumber(str) ==
    LET d == Dialled(str)
    IN  \/ ValidNanp(d)
        \/ Len(d) = 11 /\ d[1] = "1" /\ ValidNanp(SubSeq(d, 2, 11))
        \/ Len(d) = 12 /\ d[1] = "+" /\ d[2] = "1" /\ ValidNanp(SubSeq(d, 3, 12))

\* + followed by digits only
IsE164(str) ==
    /\ Len(str) >= 2
    /\ str[1] = "+"
    /\ AllDigits(Tail(str))

\* on the verify step (method, identifier) is the channel and destination
\* of the most recent send-code request, an email identifier is the trimmed
\* input and a phone identifier the E.164 form of it
OnVerifyMatchesLastSend ==
    fStep = "verify" =>
        /\ lastSend.channel = fMethod
        /\ lastSend.dest = fIdentifier
        /\ fMethod \in {"email", "phone"}
        /\ fMethod = "email" => fIdentifier = Trim(lastInput)
        /\ fMethod = "phone" =>
              /\ IsE164(fIdentifier)
              /\ fIdentifier = FormatE164(Trim(lastInput))

\* every verification request went to the endpoint of the channel of the
\* send-code request before it, with that request's destination, and every
\* resend to the same channel and destination
RequestsFollowLastSend ==
    /\ lastVerify # NoVerify =>
          /\ lastVerify.endpoint =
                (IF lastVerify.sendChannel = "email"
                   THEN "signIn.emailOtp" ELSE "phoneNumber.verify")
          /\ lastVerify.id = lastVerify.sendDest
    /\ lastResend # NoResend =>
          /\ lastResend.channel = lastResend.sendChannel
          /\ lastResend.dest = lastResend.sendDest

\* C10 as stated: on the verify step method is 'phone' exactly when the
\* trimmed input was a valid US phone number; (method, identifier) is the
\* most recent send-code request; verification and resend follow it.
C10_MethodPhoneIffValidUsNumber ==
    /\ OnVerifyMatchesLastSend
    /\ RequestsFollowLastSend
    /\ fStep = "verify" =>
          (fMethod = "phone" <=> IsValidUsNumber(Trim(lastInput)))

\* C10 amended: as stated, with method 'phone' exactly when
\* isValidPhoneNumber(trimmed input, "US") holds, which a valid number in
\* international format of another country satisfies too.
C10_MethodIdentifierMatchLastSend ==
    /\ OnVerifyMatchesLastSend
    /\ RequestsFollowLastSend
    /\ fStep = "verify" =>
          /\ fMethod = "phone" <=> IsValidPhoneNumber(Trim(lastInput))
          /\ IsValidUsNumber(Trim(lastInput)) => fMethod = "phone"
          /\ (\E k \in DOMAIN lastInput : lastInput[k] = "@") => fMethod = "email"

C10_Witness ==
    /\ fStep = "verify"
    /\ fMethod = "phone"
    /\ lastInput =
          <<"(", "2", "1", "3", ")", " ", "3", "7", "3", "-", "4", "2", "5", "3">>
    /\ fIdentifier =
          <<"+", "1", "2", "1", "3", "3", "7", "3", "4", "2", "5", "3">>
    /\ lastResend.channel = "phone"
    /\ lastResend.dest = fIdentifier
    /\ lastSend.dest = fIdentifier
    /\ lastVerify.endpoint = "phoneNumber.verify"
    /\ lastVerify.id = fIdentifier
    /\ sPc = "verifying"

\* C11: a verification request is issued only from the verify step and
\* only with a code of exactly 6 characters, the OTP length the server is
\* configured with on that channel; on the login step the OTP field does
\* not block submission: with an identifier of 1..255 characters and no
\* submit in flight the login submit can run whatever the OTP field holds.
C11_VerifyOnlyWithSixCharCode ==
    /\ [][(sPc # "verifying" /\ sPc' = "verifying") =>
            /\ fStep = "verify"
            /\ Len(fOtp) = 6
            /\ lastVerify'.otp = fOtp
            /\ Len(fOtp) = ServerOtpLength(fMethod)]_vars
    /\ [](lastVerify # NoVerify =>
            /\ Len(lastVerify.otp) = 6
            /\ lastVerify.endpoint \in {"signIn.emailOtp", "phoneNumber.verify"})
    /\ [](EmailOtpLength = 6 /\ PhoneOtpLength = 6)
    /\ []((fStep = "login" /\ ~isSubmitting /\ Len(fIdentifier) \in 1..255)
            => ENABLED SubmitLogin)

C11_Witness ==
    /\ sPc = "verifying"
    /\ fStep = "verify"
    /\ Len(fOtp) = 6
    /\ lastVerify.otp = fOtp
    /\ lastVerify.endpoint = "signIn.emailOtp"
    /\ sendOutcome = "ok"

IsNotPlus(c) == c # "+"

IsProductionOrigin(origin) ==
    LET n == Len(origin)
        domain == PkgName \o <<".", "i", "o">>
        d == Len(domain)
    IN  /\ n >= Len(Https) + d
        /\ SubSeq(origin, 1, Len(Https)) = Https
        /\ SubSeq(origin, n - d + 1, n) = domain
        /\ LET sub == SubSeq(origin, Len(Https) + 1, n - d)
           IN  \/ sub = <<>>
               \/ /\ Len(sub) >= 2
                  /\ \A k \in 1..(Len(sub) - 1) : sub[k] \in LabelChars
                  /\ sub[Len(sub)] = "."

\* C13: in production an origin is allowed exactly when it is
\* https://wysteria.io or https://<label>.wysteria.io with a non-empty label
\* over [a-z0-9-]; outside production every origin is allowed.
C13_CorsAllowsExactlyProductionDomains ==
    corsPc = "done" =>
        (corsAllowed <=>
            (corsNodeEnv # "production" \/ IsProductionOrigin(corsOrigin)))

\* C14: PATCH /user/me updates the stored user record, so a GET /user/me
\* received after it returns the updated name and image: the stored row of a
\* user holds the fields of the user's last answered PATCH, and a GET
\* /user/me that was received after that PATCH answers with them.
C14_PatchUpdatesStoredUser ==
    /\ \A u \in DOMAIN userTable :
          LET p == lastPatch[u]
          IN  /\ p.hasName => userTable[u].name = p.name
              /\ p.hasImage => userTable[u].image = p.image
    /\ \A r \in DOMAIN uReqs :
          LET q == uReqs[r]
              p == q.seen[q.user.id]
          IN  (/\ q.pc = "done"
               /\ q.handler = "getMe"
               /\ q.status = 200
               /\ p = lastPatch[q.user.id]) =>
                  /\ p.hasName => q.resp.name = p.name
                  /\ p.hasImage => q.resp.image = p.image

\* C15: GET /user/:id answers 404 'User not found' exactly when no stored
\* user has that id and otherwise answers 200 with the stored user of that
\* id; it never asks for a session (no resolve step, no 401, the same answer
\* with and without a cookie) and leaves the user table as it was.
C15_GetByIdFoundOrNotFound ==
    /\ [][\A r \in DOMAIN uReqs :
            (/\ uReqs[r].handler = "getById"
             /\ uReqs[r].pc = "handler"
             /\ uReqs'[r].pc = "done") =>
                LET id == uReqs[r].path[2]
                    a == uReqs'[r]
                IN  /\ (a.status = 404 /\ a.msg = "User not found")
                          <=> id \notin DOMAIN userTable
                    /\ a.status \in {200, 404}
                    /\ a.status = 200 =>
                          /\ a.resp.id = id
                          /\ a.resp.name = userTable[id].name
                          /\ a.resp.image = userTable[id].image
                    /\ userTable' = userTable
                    /\ lastPatch' = lastPatch]_vars
    /\ [](\A r \in DOMAIN uReqs :
            uReqs[r].handler = "getById" =>
                /\ uReqs[r].pc \in {"handler", "done"}
                /\ uReqs[r].status # 401
                /\ uReqs[r].user = Undefined)

C15_Witness ==
    \E r1, r2 \in DOMAIN uReqs :
        /\ uReqs[r1].handler = "getById" /\ uReqs[r2].handler = "getById"
        /\ uReqs[r1].path = <<"user", "carol">>
        /\ uReqs[r2].path = <<"user", "carol">>
        /\ uReqs[r1].cookie = "none" /\ uReqs[r2].cookie = "none"
        /\ uReqs[r1].pc = "done" /\ uReqs[r2].pc = "done"
        /\ uReqs[r1].status = 404 /\ uReqs[r1].msg = "User not found"
        /\ uReqs[r2].status = 200 /\ uReqs[r2].resp.name = Cy

====
